---- MODULE Spec2Model ----
(***************************************************************************)
(* A model of the pane layer of the terminal multiplexer (mux/src/pane.rs):*)
(* the paste trickle scheduler (trickle_paste, schedule_next_paste) and    *)
(* the logical line reconstructor (get_logical_lines, LogicalLine).        *)
(***************************************************************************)
EXTENDS Integers, Sequences, FiniteSets, TLC

VARIABLES
    \* ---- paste trickle scheduler ----
    paneState,  \* the owning pane: "alive", "dead" or "removed" (gone from the Mux)
    text,       \* per trickle_paste call: the payload, a sequence of UTF-8 bytes
    call,       \* per call: "none" (not made yet), "ok", "err" or "panic"
    paste,      \* per call: the Paste struct behind the Arc<Mutex<..>>, or NoPaste
    mutex,      \* per call: the Mutex of the Paste: "free", "held" or "poisoned"
    queue,      \* the executor's queue of spawned continuations (job names)
    running,    \* the continuation that is executing, or NoTask
    contPanic,  \* per call: why a continuation of the job panicked, or "no"
    sent,       \* the send_paste calls made on the pane, in order
    cuts,       \* per call: the byte offsets at which the payload was sliced
    \* ---- logical line reconstructor ----
    lines,      \* FakePane::lines: the physical lines the provider holds
    gl,         \* the get_logical_lines call: its position and local variables
    hl,         \* the get_lines_with_hyperlinks_applied call around it
    base,       \* the first row the provider still holds: the rows before it are evicted
    co,         \* the last call of a coordinate mapping of a LogicalLine
    \* ---- pane ids ----
    PANE_ID,    \* the static AtomicUsize
    thr,        \* per thread: where it is in a call of alloc_pane_id
    allocs,     \* the calls of alloc_pane_id that have returned, in order of return
    \* ---- dirty flags ----
    dirty,      \* per row of the backing store: its dirty flag
    handed,     \* the rows get_lines has returned and that were not mutated since
    seen,       \* what the get_dirty_lines call just made returned, or NoSeen
    \* ---- the window ----
    tw          \* TermWindow: where paint_tab is, what it rendered, the pending invalidate

pasteVars == <<paneState, text, call, paste, mutex, queue, running, contPanic, sent, cuts>>

lineVars == <<lines, gl, hl>>

idVars == <<PANE_ID, thr, allocs>>

dirtyVars == <<dirty, handed, seen>>

restVars == <<base, co, idVars, dirtyVars, tw>>

vars == <<pasteVars, lineVars, restVars>>

(***************************************************************************)
(* Constants of the program and bounds of the model.                       *)
(***************************************************************************)
PASTE_CHUNK_SIZE == 1024

\* the id the pane of the model got from alloc_pane_id
FirstPaneId == 0

\* the provider holds at most MaxRows physical lines of at most MaxCols cells
MaxRows == 3
MaxCols == 2
\* with hyperlink rules applied: at most LinkRows lines
LinkRows == 2

\* alloc_pane_id is called at most MaxAllocs times, by the threads of Threads
MaxAllocs == 4
Threads == {"t1", "t2", "t3"}
\* the backing store of the dirty flags has DirtyRows rows
DirtyRows == 3

\* payloads reach over at most MaxChunks nominal chunk boundaries
MaxChunks == 2
\* and carry at most MaxTail further bytes after the character at the boundary
MaxTail == 1

Jobs == {"A", "B"}

Min(a, b) == IF a <= b THEN a ELSE b

NoPaste == [none |-> TRUE]
NoTask == [none |-> TRUE]

ThreadIdle == [pc |-> "idle"]

NoSeen == [none |-> TRUE]

DirtyRowSet == 0..(DirtyRows - 1)

(***************************************************************************)
(* Strings. A String is valid UTF-8: a sequence of characters, each        *)
(* encoded as one ASCII byte "a", or as a lead byte "L" followed by one to *)
(* three continuation bytes "c".                                           *)
(***************************************************************************)
Pad(n) == [i \in 1..n |-> "a"]

Enc(w) == IF w = 1 THEN <<"a">> ELSE <<"L">> \o [i \in 1..(w - 1) |-> "c"]

\* n characters of w bytes each
Rep(w, n) == [i \in 1..(n * w) |-> Enc(w)[((i - 1) % w) + 1]]

\* str::is_char_boundary
IsCharBoundary(s, index) ==
    \/ index = 0
    \/ index = Len(s)
    \/ index < Len(s) /\ s[index + 1] # "c"

Panic == [panic |-> TRUE]

\* &s[from..to]: the bytes, or a panic when an end is not a char boundary
Slice(s, from, to) ==
    IF from <= to /\ to <= Len(s) /\ IsCharBoundary(s, from) /\ IsCharBoundary(s, to)
    THEN [panic |-> FALSE, bytes |-> SubSeq(s, from + 1, to)]
    ELSE Panic

(***************************************************************************)
(* The payloads the model pastes.                                          *)
(***************************************************************************)
\* a character of w bytes of which k lie before the m-th nominal boundary
BoundaryCases == {wk \in (1..4) \X (0..4) : wk[2] <= wk[1]}

SmallPayloads == {Pad(0), Pad(1), Enc(3)}

BoundaryPayloads ==
    {Pad(PASTE_CHUNK_SIZE * m - wk[2]) \o Enc(wk[1]) \o Pad(c) :
        m \in 1..MaxChunks, wk \in BoundaryCases, c \in 0..MaxTail}

\* an ASCII first chunk, then only characters of w bytes
WidePayloads ==
    {Pad(PASTE_CHUNK_SIZE) \o Rep(w, ((MaxChunks - 1) * PASTE_CHUNK_SIZE) \div w + 2) :
        w \in 2..4}

Payloads == SmallPayloads \cup BoundaryPayloads \cup WidePayloads

(***************************************************************************)
(* termwiz::surface::Line: cells and the "last cell was wrapped" flag.     *)
(* A cell has a character and a hyperlink attribute: "none", "implicit"    *)
(* (made by a rule) or "explicit" (set by the application).                *)
(***************************************************************************)
Cell(ch, link) == [ch |-> ch, link |-> link]

Line(cells, wrapped) == [cells |-> cells, wrapped |-> wrapped]

last_cell_was_wrapped(line) == line.wrapped

set_last_cell_was_wrapped(line, wrapped) == [line EXCEPT !.wrapped = wrapped]

\* Line::append_line: the other line's cells follow; the flag travels with them
append_line(line, other) == Line(line.cells \o other.cells, other.wrapped)

\* Line::split_off(idx): <<what stays in the line, the remainder>>
split_off(line, idx) ==
    << Line(SubSeq(line.cells, 1, idx), FALSE),
       Line(SubSeq(line.cells, idx + 1, Len(line.cells)), line.wrapped) >>

as_str(line) == [i \in 1..Len(line.cells) |-> line.cells[i].ch]

has_hyperlink(line) == \E i \in 1..Len(line.cells) : line.cells[i].link # "none"

invalidate_implicit_hyperlinks(line) ==
    [line EXCEPT !.cells = [i \in 1..Len(line.cells) |->
        IF line.cells[i].link = "implicit" THEN Cell(line.cells[i].ch, "none") ELSE line.cells[i]]]

\* the start positions of the leftmost, non-overlapping matches of pat in str from i on
RECURSIVE MatchStarts(_, _, _)
MatchStarts(str, pat, i) ==
    IF i + Len(pat) - 1 > Len(str) THEN {}
    ELSE IF SubSeq(str, i, i + Len(pat) - 1) = pat
         THEN {i} \cup MatchStarts(str, pat, i + Len(pat))
         ELSE MatchStarts(str, pat, i + 1)

\* whether cell i of str lies in a match of one of the rules
InMatch(str, rules, i) ==
    \E r \in 1..Len(rules) : \E m \in MatchStarts(str, rules[r], 1) :
        m <= i /\ i < m + Len(rules[r])

\* Line::scan_and_create_hyperlinks: the matched cells get an implicit link
scan_and_create_hyperlinks(line, rules) ==
    [line EXCEPT !.cells = [i \in 1..Len(line.cells) |->
        IF InMatch(as_str(line), rules, i) THEN Cell(line.cells[i].ch, "implicit")
        ELSE line.cells[i]]]

(***************************************************************************)
(* The pane.                                                               *)
(***************************************************************************)
\* FakePane::get_lines(start..end): <<first, lines>>
GetLines(start, end) ==
    << start, SubSeq(lines, start + 1, Min(end, Len(lines))) >>

\* a range that has been scrolled off the top: the top n rows of the scrollback,
\* n the size of the range, with the adjusted index of the first row
Reanchored(start, end) == GetLines(base, base + (end - start))

\* Pane::get_lines(start..end)
get_lines(start, end) ==
    IF start < base THEN Reanchored(start, end) ELSE GetLines(start, end)

\* Pane::send_paste -> anyhow::Result<()>: TRUE is Ok(())
SendPasteResults == IF paneState = "alive" THEN {TRUE} ELSE {FALSE}

\* Mux::get_pane(pane_id) is Some
GetPaneIsSome(pane_id) == pane_id = FirstPaneId /\ paneState # "removed"

SendRecord(j, chunk, ok) == [job |-> j, chunk |-> chunk, ok |-> ok]

(***************************************************************************)
(* Pane::trickle_paste                                                     *)
(***************************************************************************)
\* schedule_next_paste, up to the spawn: the continuation is queued
SpawnNextPaste(j) == queue' = Append(queue, j)

\* TricklePaste with `<` for `<=` in the size test
TricklePaste_Lt(j) ==
    /\ UNCHANGED <<lineVars, restVars>>
    /\ call[j] = "none"
    /\ running = NoTask
    /\ UNCHANGED <<paneState, text, mutex, running, contPanic>>
    /\ IF Len(text[j]) < PASTE_CHUNK_SIZE
       THEN \E ok \in SendPasteResults :
              /\ sent' = Append(sent, SendRecord(j, text[j], ok))
              /\ call' = [call EXCEPT ![j] = IF ok THEN "ok" ELSE "err"]
              /\ UNCHANGED <<paste, queue, cuts>>
       ELSE LET first == Slice(text[j], 0, PASTE_CHUNK_SIZE) IN
            /\ cuts' = [cuts EXCEPT ![j] = Append(@, PASTE_CHUNK_SIZE)]
            /\ IF first = Panic
               THEN /\ call' = [call EXCEPT ![j] = "panic"]
                    /\ UNCHANGED <<paste, queue, sent>>
               ELSE \E ok \in SendPasteResults :
                      /\ sent' = Append(sent, SendRecord(j, first.bytes, ok))
                      /\ IF ok
                         THEN /\ paste' = [paste EXCEPT ![j] =
                                     [pane_id |-> FirstPaneId, offset |-> PASTE_CHUNK_SIZE]]
                              /\ SpawnNextPaste(j)
                              /\ call' = [call EXCEPT ![j] = "ok"]
                         ELSE /\ call' = [call EXCEPT ![j] = "err"]
                              /\ UNCHANGED <<paste, queue>>

\* TricklePaste with the result of the first send dropped instead of returned
TricklePaste_SwallowsErr(j) ==
    /\ UNCHANGED <<lineVars, restVars>>
    /\ call[j] = "none"
    /\ running = NoTask
    /\ UNCHANGED <<paneState, text, mutex, running, contPanic>>
    /\ IF Len(text[j]) <= PASTE_CHUNK_SIZE
       THEN \E ok \in SendPasteResults :
              /\ sent' = Append(sent, SendRecord(j, text[j], ok))
              /\ call' = [call EXCEPT ![j] = IF ok THEN "ok" ELSE "err"]
              /\ UNCHANGED <<paste, queue, cuts>>
       ELSE LET first == Slice(text[j], 0, PASTE_CHUNK_SIZE) IN
            /\ cuts' = [cuts EXCEPT ![j] = Append(@, PASTE_CHUNK_SIZE)]
            /\ IF first = Panic
               THEN /\ call' = [call EXCEPT ![j] = "panic"]
                    /\ UNCHANGED <<paste, queue, sent>>
               ELSE \E ok \in SendPasteResults :
                      /\ sent' = Append(sent, SendRecord(j, first.bytes, ok))
                      /\ paste' = [paste EXCEPT ![j] =
                             [pane_id |-> FirstPaneId, offset |-> PASTE_CHUNK_SIZE]]
                      /\ SpawnNextPaste(j)
                      /\ call' = [call EXCEPT ![j] = IF ok THEN "ok" ELSE "err"]

TricklePaste(j) ==
    /\ UNCHANGED <<lineVars, restVars>>
    /\ call[j] = "none"
    /\ running = NoTask
    /\ UNCHANGED <<paneState, text, mutex, running, contPanic>>
    /\ IF Len(text[j]) <= PASTE_CHUNK_SIZE
       THEN \* Send it all now
            \E ok \in SendPasteResults :
              /\ sent' = Append(sent, SendRecord(j, text[j], ok))
              /\ call' = [call EXCEPT ![j] = IF ok THEN "ok" ELSE "err"]
              /\ UNCHANGED <<paste, queue, cuts>>
       ELSE LET first == Slice(text[j], 0, PASTE_CHUNK_SIZE) IN
            /\ cuts' = [cuts EXCEPT ![j] = Append(@, PASTE_CHUNK_SIZE)]
            /\ IF first = Panic
               THEN /\ call' = [call EXCEPT ![j] = "panic"]
                    /\ UNCHANGED <<paste, queue, sent>>
               ELSE \E ok \in SendPasteResults :
                      /\ sent' = Append(sent, SendRecord(j, first.bytes, ok))
                      /\ IF ok
                         THEN /\ paste' = [paste EXCEPT ![j] =
                                     [pane_id |-> FirstPaneId, offset |-> PASTE_CHUNK_SIZE]]
                              /\ SpawnNextPaste(j)
                              /\ call' = [call EXCEPT ![j] = "ok"]
                         ELSE /\ call' = [call EXCEPT ![j] = "err"]
                              /\ UNCHANGED <<paste, queue>>

(***************************************************************************)
(* schedule_next_paste: the spawned continuation, one step per statement.  *)
(***************************************************************************)
\* the while loop that grows the chunk up to a char boundary
RECURSIVE GrowChunk(_, _, _, _)
GrowChunk(s, offset, chunk, remain) ==
    IF ~IsCharBoundary(s, offset + chunk) /\ chunk < remain
    THEN GrowChunk(s, offset, chunk + 1, remain)
    ELSE chunk

\* ChunkLen that takes all that remains when the nominal end is inside a character
ChunkLen_ToRemain(s, offset) ==
    LET remain == Len(s) - offset
        chunk == Min(remain, PASTE_CHUNK_SIZE)
    IN  IF ~IsCharBoundary(s, offset + chunk) /\ chunk < remain THEN remain ELSE chunk

ChunkLen(s, offset) ==
    LET remain == Len(s) - offset IN
    GrowChunk(s, offset, Min(remain, PASTE_CHUNK_SIZE), remain)

\* a panic unwinds the task: the guard is dropped (poisoning the mutex), the
\* task's Arc is dropped with it and nothing is rescheduled
ContPanics(j, why) ==
    /\ contPanic' = [contPanic EXCEPT ![j] = why]
    /\ mutex' = [mutex EXCEPT ![j] = IF @ = "held" THEN "poisoned" ELSE @]
    /\ paste' = [paste EXCEPT ![j] = NoPaste]
    /\ running' = NoTask

\* the executor starts the task at the head of its queue; paste.lock().unwrap()
ContLock(j) ==
    /\ UNCHANGED <<lineVars, restVars>>
    /\ running = NoTask
    /\ queue # <<>>
    /\ Head(queue) = j
    /\ mutex[j] # "held"
    /\ queue' = Tail(queue)
    /\ UNCHANGED <<paneState, text, call, sent, cuts>>
    /\ IF mutex[j] = "poisoned"
       THEN ContPanics(j, "poisoned")
       ELSE /\ mutex' = [mutex EXCEPT ![j] = "held"]
            /\ running' = [job |-> j, pc |-> "locked", chunk |-> 0, remain |-> 0]
            /\ UNCHANGED <<paste, contPanic>>

\* ContSend with the failed send logged and ignored instead of unwrapped
ContSend_IgnoreErr(j) ==
    /\ UNCHANGED <<lineVars, restVars>>
    /\ running # NoTask
    /\ running.job = j
    /\ running.pc = "locked"
    /\ UNCHANGED <<paneState, text, call, queue>>
    /\ IF ~GetPaneIsSome(paste[j].pane_id)
       THEN ContPanics(j, "pane_gone") /\ UNCHANGED <<sent, cuts>>
       ELSE LET offset == paste[j].offset
                remain == Len(text[j]) - offset
                chunk == ChunkLen(text[j], offset)
                text_slice == Slice(text[j], offset, offset + chunk)
            IN  /\ cuts' = [cuts EXCEPT ![j] = Append(@, offset + chunk)]
                /\ IF text_slice = Panic
                   THEN ContPanics(j, "slice") /\ UNCHANGED sent
                   ELSE \E ok \in SendPasteResults :
                          /\ sent' = Append(sent, SendRecord(j, text_slice.bytes, ok))
                          /\ running' = [running EXCEPT !.pc = "sent",
                                             !.chunk = chunk, !.remain = remain]
                          /\ UNCHANGED <<paste, mutex, contPanic>>

\* get_pane().unwrap(), the chunk computation, the slice and send_paste().unwrap()
ContSend(j) ==
    /\ UNCHANGED <<lineVars, restVars>>
    /\ running # NoTask
    /\ running.job = j
    /\ running.pc = "locked"
    /\ UNCHANGED <<paneState, text, call, queue>>
    /\ IF ~GetPaneIsSome(paste[j].pane_id)
       THEN ContPanics(j, "pane_gone") /\ UNCHANGED <<sent, cuts>>
       ELSE LET offset == paste[j].offset
                remain == Len(text[j]) - offset
                chunk == ChunkLen(text[j], offset)
                text_slice == Slice(text[j], offset, offset + chunk)
            IN  /\ cuts' = [cuts EXCEPT ![j] = Append(@, offset + chunk)]
                /\ IF text_slice = Panic
                   THEN ContPanics(j, "slice") /\ UNCHANGED sent
                   ELSE \E ok \in SendPasteResults :
                          /\ sent' = Append(sent, SendRecord(j, text_slice.bytes, ok))
                          /\ IF ok
                             THEN /\ running' = [running EXCEPT !.pc = "sent",
                                                     !.chunk = chunk, !.remain = remain]
                                  /\ UNCHANGED <<paste, mutex, contPanic>>
                             ELSE ContPanics(j, "send_failed")

\* ContAdvance on an offset that all jobs share
ContAdvance_SharedOffset(j) ==
    /\ UNCHANGED <<lineVars, restVars>>
    /\ running # NoTask
    /\ running.job = j
    /\ running.pc = "sent"
    /\ UNCHANGED <<paneState, text, call, mutex, queue, contPanic, sent, cuts>>
    /\ IF running.chunk < running.remain
       THEN /\ paste' = [k \in Jobs |-> IF paste[k] = NoPaste THEN NoPaste
                                        ELSE [paste[k] EXCEPT !.offset = @ + running.chunk]]
            /\ running' = [running EXCEPT !.pc = "advanced"]
       ELSE /\ running' = [running EXCEPT !.pc = "last"]
            /\ UNCHANGED paste

\* ContAdvance with `=` for `+=`
ContAdvance_Assigns(j) ==
    /\ UNCHANGED <<lineVars, restVars>>
    /\ running # NoTask
    /\ running.job = j
    /\ running.pc = "sent"
    /\ UNCHANGED <<paneState, text, call, mutex, queue, contPanic, sent, cuts>>
    /\ IF running.chunk < running.remain
       THEN /\ paste' = [paste EXCEPT ![j].offset = running.chunk]
            /\ running' = [running EXCEPT !.pc = "advanced"]
       ELSE /\ running' = [running EXCEPT !.pc = "last"]
            /\ UNCHANGED paste

\* if chunk < remain { locked.offset += chunk; ...
ContAdvance(j) ==
    /\ UNCHANGED <<lineVars, restVars>>
    /\ running # NoTask
    /\ running.job = j
    /\ running.pc = "sent"
    /\ UNCHANGED <<paneState, text, call, mutex, queue, contPanic, sent, cuts>>
    /\ IF running.chunk < running.remain
       THEN /\ paste' = [paste EXCEPT ![j].offset = @ + running.chunk]
            /\ running' = [running EXCEPT !.pc = "advanced"]
       ELSE /\ running' = [running EXCEPT !.pc = "last"]
            /\ UNCHANGED paste

\* ContSpawn that forgets to reschedule
ContSpawn_Forgets(j) ==
    /\ UNCHANGED <<lineVars, restVars>>
    /\ running # NoTask
    /\ running.job = j
    /\ running.pc = "advanced"
    /\ running' = [running EXCEPT !.pc = "spawned"]
    /\ UNCHANGED <<paneState, text, call, paste, mutex, queue, contPanic, sent, cuts>>

\* ContSpawn that schedules two successors
ContSpawn_Twice(j) ==
    /\ UNCHANGED <<lineVars, restVars>>
    /\ running # NoTask
    /\ running.job = j
    /\ running.pc = "advanced"
    /\ queue' = Append(Append(queue, j), j)
    /\ running' = [running EXCEPT !.pc = "spawned"]
    /\ UNCHANGED <<paneState, text, call, paste, mutex, contPanic, sent, cuts>>

\* ... schedule_next_paste(&paste); }
ContSpawn(j) ==
    /\ UNCHANGED <<lineVars, restVars>>
    /\ running # NoTask
    /\ running.job = j
    /\ running.pc = "advanced"
    /\ SpawnNextPaste(j)
    /\ running' = [running EXCEPT !.pc = "spawned"]
    /\ UNCHANGED <<paneState, text, call, paste, mutex, contPanic, sent, cuts>>

\* ContUnlock with the guard leaked: the mutex stays locked
ContUnlock_KeepsLock(j) ==
    /\ UNCHANGED <<lineVars, restVars>>
    /\ running # NoTask
    /\ running.job = j
    /\ running.pc \in {"last", "spawned"}
    /\ paste' = [paste EXCEPT ![j] = IF running.pc = "last" THEN NoPaste ELSE @]
    /\ running' = NoTask
    /\ UNCHANGED <<paneState, text, call, mutex, queue, contPanic, sent, cuts>>

\* the end of the async block: the guard is dropped, and so is the task's Arc
ContUnlock(j) ==
    /\ UNCHANGED <<lineVars, restVars>>
    /\ running # NoTask
    /\ running.job = j
    /\ running.pc \in {"last", "spawned"}
    /\ mutex' = [mutex EXCEPT ![j] = "free"]
    /\ paste' = [paste EXCEPT ![j] = IF running.pc = "last" THEN NoPaste ELSE @]
    /\ running' = NoTask
    /\ UNCHANGED <<paneState, text, call, queue, contPanic, sent, cuts>>

\* the pane's process exits: Pane::is_dead becomes true
KillPane ==
    /\ UNCHANGED <<lineVars, restVars>>
    /\ paneState = "alive"
    /\ paneState' = "dead"
    /\ UNCHANGED <<text, call, paste, mutex, queue, running, contPanic, sent, cuts>>

\* the Mux, on the main thread, drops the dead pane
RemovePane ==
    /\ UNCHANGED <<lineVars, restVars>>
    /\ paneState = "dead"
    /\ running = NoTask
    /\ paneState' = "removed"
    /\ UNCHANGED <<text, call, paste, mutex, queue, running, contPanic, sent, cuts>>

ContStep ==
    \E j \in Jobs : ContLock(j) \/ ContSend(j) \/ ContAdvance(j) \/ ContSpawn(j) \/ ContUnlock(j)

(***************************************************************************)
(* alloc_pane_id, called from several threads.                             *)
(***************************************************************************)
\* the ids of the calls that have returned
Returned == {allocs[i].id : i \in 1..Len(allocs)}

InFlight == {t \in Threads : thr[t].pc # "idle"}

\* a thread calls alloc_pane_id; before: the ids returned before this call began
AllocInvoke(t) ==
    /\ thr[t].pc = "idle"
    /\ Len(allocs) + Cardinality(InFlight) < MaxAllocs
    /\ thr' = [thr EXCEPT ![t] = [pc |-> "calling", before |-> Returned]]
    /\ UNCHANGED <<PANE_ID, allocs>>
    /\ UNCHANGED <<pasteVars, lineVars, base, co, dirtyVars, tw>>

\* FetchAdd as a plain load: the counter is read and not advanced
FetchAdd_Load(t) ==
    /\ thr[t].pc = "calling"
    /\ thr' = [thr EXCEPT ![t] = [pc |-> "fetched", before |-> thr[t].before, id |-> PANE_ID]]
    /\ UNCHANGED <<PANE_ID, allocs>>
    /\ UNCHANGED <<pasteVars, lineVars, base, co, dirtyVars, tw>>

\* PANE_ID.fetch_add(1, Relaxed): one atomic read-modify-write
FetchAdd(t) ==
    /\ thr[t].pc = "calling"
    /\ PANE_ID' = PANE_ID + 1
    /\ thr' = [thr EXCEPT ![t] = [pc |-> "fetched", before |-> thr[t].before, id |-> PANE_ID]]
    /\ UNCHANGED allocs
    /\ UNCHANGED <<pasteVars, lineVars, base, co, dirtyVars, tw>>

\* alloc_pane_id returns the value fetch_add gave
AllocReturn(t) ==
    /\ thr[t].pc = "fetched"
    /\ allocs' = Append(allocs, [thread |-> t, id |-> thr[t].id, before |-> thr[t].before])
    /\ thr' = [thr EXCEPT ![t] = ThreadIdle]
    /\ UNCHANGED PANE_ID
    /\ UNCHANGED <<pasteVars, lineVars, base, co, dirtyVars, tw>>

(***************************************************************************)
(* The dirty flags of the backing store behind Pane::get_dirty_lines and   *)
(* Pane::get_lines.                                                        *)
(***************************************************************************)
RowsIn(start, end) == {r \in DirtyRowSet : start <= r /\ r < end}

\* the terminal writes to a row: the row is dirty again
MutateRow(r) ==
    /\ dirty' = [dirty EXCEPT ![r] = TRUE]
    /\ handed' = handed \ {r}
    /\ seen' = NoSeen
    /\ UNCHANGED <<pasteVars, lineVars, base, co, idVars, tw>>

\* Pane::get_dirty_lines(start..end): the rows of the range that are dirty
GetDirtyLines(start, end) ==
    /\ seen' = [start |-> start, end |-> end, rows |-> {r \in RowsIn(start, end) : dirty[r]}]
    /\ UNCHANGED <<dirty, handed>>
    /\ UNCHANGED <<pasteVars, lineVars, base, co, idVars, tw>>

\* GetLinesClearing that returns the rows and leaves their flags as they are
GetLinesClearing_KeepsFlags(start, end) ==
    /\ handed' = handed \cup RowsIn(start, end)
    /\ seen' = NoSeen
    /\ UNCHANGED dirty
    /\ UNCHANGED <<pasteVars, lineVars, base, co, idVars, tw>>

\* Pane::get_lines(start..end) on the backing store: for each line returned, if
\* it was dirty then the dirty flag is cleared in the backing data
GetLinesClearing(start, end) ==
    /\ dirty' = [r \in DirtyRowSet |-> IF r \in RowsIn(start, end) THEN FALSE ELSE dirty[r]]
    /\ handed' = handed \cup RowsIn(start, end)
    /\ seen' = NoSeen
    /\ UNCHANGED <<pasteVars, lineVars, base, co, idVars, tw>>

(***************************************************************************)
(* LogicalLine and Pane::get_logical_lines, one step per loop iteration.   *)
(***************************************************************************)
LogicalLine(physical_lines, logical, first_row) ==
    [physical_lines |-> physical_lines, logical |-> logical, first_row |-> first_row]

\* tick: the parity of the number of get_lines calls made so far
GlIdle == [pc |-> "idle", start |-> 0, end |-> 0, first |-> 0, phys |-> <<>>, result |-> <<>>,
           tick |-> 0]

NoRow == -1

HlIdle == [pc |-> "idle", rules |-> <<>>, applied |-> <<>>, first |-> NoRow, phys_lines |-> <<>>]

\* let (mut first, mut phys) = self.get_lines(lines);
EnterGetLogicalLines(start, end) ==
    gl' = [pc |-> "back", start |-> start, end |-> end,
           first |-> get_lines(start, end)[1], phys |-> get_lines(start, end)[2],
           result |-> <<>>, tick |-> 1]

GetLogicalLines(start, end) ==
    /\ gl.pc = "idle"
    /\ hl.pc = "idle"
    /\ EnterGetLogicalLines(start, end)
    /\ UNCHANGED <<lines, hl>>
    /\ UNCHANGED <<pasteVars, restVars>>

\* one iteration of: while first > 0 { ... }
LookBackwards ==
    /\ gl.pc = "back"
    /\ UNCHANGED <<lines, hl>>
    /\ UNCHANGED <<pasteVars, restVars>>
    /\ IF gl.first > 0
       THEN LET prior == get_lines(gl.first - 1, gl.first)[1]
                back == get_lines(gl.first - 1, gl.first)[2]
                probed == [gl EXCEPT !.tick = 1 - @]
            IN  IF prior = gl.first
                THEN gl' = [probed EXCEPT !.pc = "fwd"]
                ELSE IF back = <<>>
                THEN gl' = [probed EXCEPT !.pc = "panic"]    \* back[0]: index out of bounds
                ELSE IF ~last_cell_was_wrapped(back[1])
                THEN gl' = [probed EXCEPT !.pc = "fwd"]
                ELSE gl' = [probed EXCEPT !.first = prior, !.phys = back \o @]
       ELSE gl' = [gl EXCEPT !.pc = "fwd"]

\* LookForwards without the test of the returned start index
LookForwards_AppendsAnyway ==
    /\ gl.pc = "fwd"
    /\ UNCHANGED <<lines, hl>>
    /\ UNCHANGED <<pasteVars, restVars>>
    /\ IF gl.phys = <<>>
       THEN gl' = [gl EXCEPT !.pc = "split"]
       ELSE IF ~last_cell_was_wrapped(gl.phys[Len(gl.phys)])
       THEN gl' = [gl EXCEPT !.pc = "split"]
       ELSE LET next_row == gl.first + Len(gl.phys)
                ahead == get_lines(next_row, next_row + 1)[2]
            IN  gl' = [gl EXCEPT !.tick = 1 - @, !.phys = @ \o ahead]

\* one iteration of: while let Some(last) = phys.last() { ... }
LookForwards ==
    /\ gl.pc = "fwd"
    /\ UNCHANGED <<lines, hl>>
    /\ UNCHANGED <<pasteVars, restVars>>
    /\ IF gl.phys = <<>>
       THEN gl' = [gl EXCEPT !.pc = "split"]
       ELSE IF ~last_cell_was_wrapped(gl.phys[Len(gl.phys)])
       THEN gl' = [gl EXCEPT !.pc = "split"]
       ELSE LET next_row == gl.first + Len(gl.phys)
                last_row == get_lines(next_row, next_row + 1)[1]
                ahead == get_lines(next_row, next_row + 1)[2]
                fetched == [gl EXCEPT !.tick = 1 - @]
            IN  IF last_row # next_row
                THEN gl' = [fetched EXCEPT !.pc = "split"]
                ELSE gl' = [fetched EXCEPT !.phys = @ \o ahead]

\* ProcessPhys without the test of the prior line's wrap flag: no line is joined
ProcessPhys_NeverJoins(first, phys, idx, acc) ==
    [i \in 1..Len(phys) |-> LogicalLine(<<phys[i]>>, phys[i], first + i - 1)]

\* the loop that processes phys into logical lines, from physical line idx on
RECURSIVE ProcessPhys(_, _, _, _)
ProcessPhys(first, phys, idx, acc) ==
    IF idx >= Len(phys) THEN acc
    ELSE LET line == phys[idx + 1]
             fresh == LogicalLine(<<line>>, line, first + idx)
         IN  IF acc = <<>>
             THEN ProcessPhys(first, phys, idx + 1, <<fresh>>)
             ELSE LET prior == acc[Len(acc)] IN
                  IF last_cell_was_wrapped(prior.logical)
                  THEN ProcessPhys(first, phys, idx + 1,
                         [acc EXCEPT ![Len(acc)] =
                            LogicalLine(Append(prior.physical_lines, line),
                                        append_line(set_last_cell_was_wrapped(prior.logical, FALSE), line),
                                        prior.first_row)])
                  ELSE ProcessPhys(first, phys, idx + 1, Append(acc, fresh))

MakeLogicalLines ==
    /\ gl.pc = "split"
    /\ gl' = [gl EXCEPT !.pc = "done", !.result = ProcessPhys(gl.first, gl.phys, 0, <<>>)]
    /\ UNCHANGED <<lines, hl>>
    /\ UNCHANGED <<pasteVars, restVars>>

(***************************************************************************)
(* LogicalLine::xy_to_logical_x and LogicalLine::logical_x_to_physical_coord *)
(***************************************************************************)
XValue(x) == [panic |-> FALSE, value |-> x]

CoordValue(y, x) == [panic |-> FALSE, y |-> y, x |-> x]

\* the for loop of xy_to_logical_x, from physical line idx on
RECURSIVE XyToLogicalXFrom(_, _, _, _, _)
XyToLogicalXFrom(ll, x, y, idx, offset) ==
    IF idx >= Len(ll.physical_lines) THEN Panic
    ELSE IF ll.first_row + idx = y THEN XValue(offset + x)
    ELSE XyToLogicalXFrom(ll, x, y, idx + 1, offset + Len(ll.physical_lines[idx + 1].cells))

\* xy_to_logical_x without the running offset
xy_to_logical_x_NoOffset(ll, x, y) ==
    IF y >= ll.first_row /\ y < ll.first_row + Len(ll.physical_lines) THEN XValue(x) ELSE Panic

xy_to_logical_x(ll, x, y) == XyToLogicalXFrom(ll, x, y, 0, 0)

\* the for loop of logical_x_to_physical_coord, from physical line k on; x >= idx
\* holds at every iteration, so x - idx does not underflow
RECURSIVE LogicalXToPhysicalCoordFrom(_, _, _, _, _)
LogicalXToPhysicalCoordFrom(ll, x, k, y, idx) ==
    IF k >= Len(ll.physical_lines) THEN Panic
    ELSE LET x_off == x - idx
             line_len == Len(ll.physical_lines[k + 1].cells)
         IN  IF x_off < line_len THEN CoordValue(y, x_off)
             ELSE LogicalXToPhysicalCoordFrom(ll, x, k + 1, y + 1, idx + line_len)

\* logical_x_to_physical_coord without `y += 1`
logical_x_to_physical_coord_NoYStep(ll, x) ==
    LET r == LogicalXToPhysicalCoordFrom(ll, x, 0, ll.first_row, 0)
    IN  IF r = Panic THEN Panic ELSE CoordValue(ll.first_row, r.x)

logical_x_to_physical_coord(ll, x) == LogicalXToPhysicalCoordFrom(ll, x, 0, ll.first_row, 0)

NoRound == [on |-> FALSE]

\* a caller maps the logical x of the k-th returned logical line
LogicalXToPhysicalCoord(k, x) ==
    /\ gl.pc = "done"
    /\ co.op = "none"
    /\ k \in 1..Len(gl.result)
    /\ co' = [op |-> "to_phys", k |-> k, x |-> x, y |-> NoRow,
              res |-> logical_x_to_physical_coord(gl.result[k], x), round |-> NoRound]
    /\ UNCHANGED <<pasteVars, lineVars, base, idVars, dirtyVars, tw>>

\* a caller maps the physical (x, y), at first or after a logical x; round records the logical x when (y, x) is
\* what the preceding logical_x_to_physical_coord returned for the same line
XyToLogicalX(k, x, y) ==
    /\ gl.pc = "done"
    /\ co.op # "to_logical"
    /\ k \in 1..Len(gl.result)
    /\ co' = [op |-> "to_logical", k |-> k, x |-> x, y |-> y,
              res |-> xy_to_logical_x(gl.result[k], x, y),
              round |-> IF co.op = "to_phys" /\ co.k = k /\ co.res = CoordValue(y, x)
                        THEN [on |-> TRUE, x |-> co.x] ELSE NoRound]
    /\ UNCHANGED <<pasteVars, lineVars, base, idVars, dirtyVars, tw>>

(***************************************************************************)
(* LogicalLine::apply_hyperlink_rules and                                  *)
(* Pane::get_lines_with_hyperlinks_applied                                 *)
(***************************************************************************)
\* Resplit that gives every cell to the first physical line
Resplit_AllInFirst(line, physical_lines, idx, num_phys) ==
    [i \in 1..(num_phys - idx) |->
        set_last_cell_was_wrapped(IF i = 1 THEN line ELSE Line(<<>>, FALSE),
                                  idx + i - 1 = num_phys - 1)]

\* the loop that re-computes the physical lines, from physical line idx on
RECURSIVE Resplit(_, _, _, _)
Resplit(line, physical_lines, idx, num_phys) ==
    IF idx >= num_phys THEN <<>>
    ELSE LET len == Len(physical_lines[idx + 1].cells)
             parts == split_off(line, len)
             wrapped == (idx = num_phys - 1)
         IN  <<set_last_cell_was_wrapped(parts[1], wrapped)>>
                 \o Resplit(parts[2], physical_lines, idx + 1, num_phys)

apply_hyperlink_rules(ll, rules) ==
    LET logical == scan_and_create_hyperlinks(invalidate_implicit_hyperlinks(ll.logical), rules)
    IN  IF ~has_hyperlink(logical)
        THEN [ll EXCEPT !.logical = logical]
        ELSE [ll EXCEPT !.logical = logical,
                        !.physical_lines = Resplit(logical, ll.physical_lines, 0, Len(ll.physical_lines))]

\* the inner for loop over the physical lines of one logical line
RECURSIVE CollectPhys(_, _, _, _, _)
CollectPhys(log_line, idx, acc, requested_first, num_lines) ==
    IF idx >= Len(log_line.physical_lines) \/ acc.stop THEN acc
    ELSE IF log_line.first_row + idx >= requested_first
    THEN LET pushed == [acc EXCEPT
                          !.first = IF @ = NoRow THEN log_line.first_row + idx ELSE @,
                          !.phys_lines = Append(@, log_line.physical_lines[idx + 1])]
         IN  CollectPhys(log_line, idx + 1,
                         [pushed EXCEPT !.stop = (Len(pushed.phys_lines) = num_lines)],
                         requested_first, num_lines)
    ELSE CollectPhys(log_line, idx + 1, acc, requested_first, num_lines)

\* 'outer: for mut log_line in logical { ... }
RECURSIVE CollectLogical(_, _, _, _, _, _)
CollectLogical(logical, k, acc, rules, requested_first, num_lines) ==
    IF k > Len(logical) \/ acc.stop THEN acc
    ELSE LET log_line == apply_hyperlink_rules(logical[k], rules) IN
         CollectLogical(logical, k + 1,
                        CollectPhys(log_line, 0, [acc EXCEPT !.applied = Append(@, log_line)],
                                    requested_first, num_lines),
                        rules, requested_first, num_lines)

GetLinesWithHyperlinksApplied(start, end, rules) ==
    /\ gl.pc = "idle"
    /\ hl.pc = "idle"
    /\ EnterGetLogicalLines(start, end)
    /\ hl' = [hl EXCEPT !.pc = "logical", !.rules = rules]
    /\ UNCHANGED lines
    /\ UNCHANGED <<pasteVars, restVars>>

\* get_logical_lines has returned: the loop over the logical lines, and the return
ReturnLinesWithHyperlinks ==
    /\ hl.pc = "logical"
    /\ gl.pc = "done"
    /\ LET acc == CollectLogical(gl.result, 1,
                      [applied |-> <<>>, first |-> NoRow, phys_lines |-> <<>>, stop |-> FALSE],
                      hl.rules, gl.start, gl.end - gl.start)
       IN  hl' = [hl EXCEPT !.pc = "returned", !.applied = acc.applied,
                            !.first = IF acc.first = NoRow THEN 0 ELSE acc.first,
                            !.phys_lines = acc.phys_lines]
    /\ UNCHANGED <<lines, gl>>
    /\ UNCHANGED <<pasteVars, restVars>>

(***************************************************************************)
(* The providers and calls of the model.                                   *)
(***************************************************************************)
SeqsUpTo(S, n) == UNION {[1..k -> S] : k \in 0..n}

\* a row has up to MaxCols cells; only a row with cells can be wrapped
RowShapes == {sh \in (0..MaxCols) \X BOOLEAN : sh[1] = 0 => ~sh[2]}

\* the cells of row r are told apart by their place
ShapedLine(r, sh) == Line([c \in 1..sh[1] |-> Cell(<<r, c>>, "none")], sh[2])

ShapedProviders ==
    {[r \in 1..Len(shs) |-> ShapedLine(r, shs[r])] : shs \in SeqsUpTo(RowShapes, MaxRows)}

\* 0 <= start <= end, up to one row past what a provider can hold
Ranges(n) == {rg \in (0..(n + 1)) \X (0..(n + 1)) : rg[1] <= rg[2]}

CoIdle == [op |-> "none"]

IdIdle ==
    /\ PANE_ID = 0
    /\ thr = [t \in Threads |-> ThreadIdle]
    /\ allocs = <<>>

\* no paint_tab has run and no invalidate is pending
TwIdle == [pc |-> "idle", todo |-> {}, atStart |-> {}, attempted |-> {}, failed |-> {},
          painted |-> FALSE, invalid |-> FALSE]

DirtyIdle ==
    /\ dirty = [r \in DirtyRowSet |-> FALSE]
    /\ handed = {}
    /\ seen = NoSeen

\* nothing is evicted, no coordinate was mapped, no id was allocated and no row
\* is dirty
RestIdle ==
    /\ base = 0
    /\ co = CoIdle
    /\ IdIdle
    /\ DirtyIdle
    /\ tw = TwIdle

PasteIdle ==
    /\ paneState = "alive"
    /\ text = [j \in Jobs |-> <<>>]
    /\ call = [j \in Jobs |-> "never"]
    /\ paste = [j \in Jobs |-> NoPaste]
    /\ mutex = [j \in Jobs |-> "free"]
    /\ queue = <<>>
    /\ running = NoTask
    /\ contPanic = [j \in Jobs |-> "no"]
    /\ sent = <<>>
    /\ cuts = [j \in Jobs |-> <<>>]

LinesInit ==
    /\ PasteIdle
    /\ lines \in ShapedProviders
    /\ gl = GlIdle
    /\ hl = HlIdle
    /\ RestIdle

LinesNext ==
    \/ \E rg \in Ranges(MaxRows) : GetLogicalLines(rg[1], rg[2])
    \/ LookBackwards
    \/ LookForwards
    \/ MakeLogicalLines

LinesSpec == LinesInit /\ [][LinesNext]_vars

\* the call is synchronous: once entered, its loops keep executing
FairLinesSpec ==
    LinesSpec /\ WF_vars(LookBackwards) /\ WF_vars(LookForwards) /\ WF_vars(MakeLogicalLines)

\* rows of the characters "u" and "v"; the rule matches the text "uv"
LinkTexts == {<<>>, <<"u">>, <<"v">>, <<"u", "v">>}

LinkKinds == {"none", "implicit", "explicit"}

LinkLines ==
    {Line([c \in 1..Len(t) |-> Cell(t[c], k)], w) :
        t \in LinkTexts, k \in LinkKinds, w \in BOOLEAN} \ {Line(<<>>, TRUE)}

RuleSets == {<<>>, << <<"u", "v">> >>}

LinkInit ==
    /\ PasteIdle
    /\ lines \in SeqsUpTo(LinkLines, LinkRows)
    /\ gl = GlIdle
    /\ hl = HlIdle
    /\ RestIdle

LinkNext ==
    \/ \E rg \in Ranges(LinkRows) : \E rules \in RuleSets :
          GetLinesWithHyperlinksApplied(rg[1], rg[2], rules)
    \/ LookBackwards
    \/ LookForwards
    \/ MakeLogicalLines
    \/ ReturnLinesWithHyperlinks

LinkSpec == LinkInit /\ [][LinkNext]_vars

\* the full range and the range of the last row alone
CoordRanges(n) == {<<0, n>>} \cup (IF n > 0 THEN {<<n - 1, n>>} ELSE {})

CoordInit == LinesInit

\* logical x from 0 to the length, physical x from 0 to the widest row's length,
\* physical y from the row before the first to the row after the last
CoordNext ==
    \/ \E rg \in CoordRanges(Len(lines)) : GetLogicalLines(rg[1], rg[2])
    \/ LookBackwards
    \/ LookForwards
    \/ MakeLogicalLines
    \/ \E k \in 1..MaxRows : \E x \in 0..(MaxRows * MaxCols) :
          /\ k <= Len(gl.result)
          /\ x <= Len(gl.result[k].logical.cells)
          /\ LogicalXToPhysicalCoord(k, x)
    \/ \E k \in 1..MaxRows : \E x \in 0..MaxCols : \E y \in (-1)..MaxRows :
          XyToLogicalX(k, x, y)

CoordSpec == CoordInit /\ [][CoordNext]_vars

\* the scrollback is busy: the oldest row the provider holds is evicted
Evict ==
    /\ base + 1 < Len(lines)
    /\ base' = base + 1
    /\ UNCHANGED <<pasteVars, lineVars, co, idVars, dirtyVars, tw>>

EvictInit == LinesInit

EvictNext ==
    \/ \E rg \in Ranges(MaxRows) : GetLogicalLines(rg[1], rg[2])
    \/ LookBackwards
    \/ LookForwards
    \/ MakeLogicalLines
    \/ Evict

EvictSpec == EvictInit /\ [][EvictNext]_vars

IdInit ==
    /\ PasteIdle
    /\ lines = <<>>
    /\ gl = GlIdle
    /\ hl = HlIdle
    /\ RestIdle

IdNext == \E t \in Threads : AllocInvoke(t) \/ FetchAdd(t) \/ AllocReturn(t)

IdSpec == IdInit /\ [][IdNext]_vars

DirtyRanges == {rg \in (0..DirtyRows) \X (0..DirtyRows) : rg[1] <= rg[2]}

\* a screen whose rows are dirty or not, none fetched yet
DirtyInit ==
    /\ PasteIdle
    /\ lines = <<>>
    /\ gl = GlIdle
    /\ hl = HlIdle
    /\ base = 0
    /\ co = CoIdle
    /\ IdIdle
    /\ dirty \in [DirtyRowSet -> BOOLEAN]
    /\ handed = {}
    /\ seen = NoSeen
    /\ tw = TwIdle

DirtyNext ==
    \/ \E r \in DirtyRowSet : MutateRow(r)
    \/ \E rg \in DirtyRanges : GetDirtyLines(rg[1], rg[2])
    \/ \E rg \in DirtyRanges : GetLinesClearing(rg[1], rg[2])

DirtySpec == DirtyInit /\ [][DirtyNext]_vars

PasteInit ==
    /\ paneState = "alive"
    /\ text \in {[j \in Jobs |-> IF j = "A" THEN p ELSE <<>>] : p \in Payloads}
    /\ call = [j \in Jobs |-> IF j = "A" THEN "none" ELSE "never"]
    /\ paste = [j \in Jobs |-> NoPaste]
    /\ mutex = [j \in Jobs |-> "free"]
    /\ queue = <<>>
    /\ running = NoTask
    /\ contPanic = [j \in Jobs |-> "no"]
    /\ sent = <<>>
    /\ cuts = [j \in Jobs |-> <<>>]
    /\ lines = <<>>
    /\ gl = GlIdle
    /\ hl = HlIdle
    /\ RestIdle

PasteNext ==
    \/ \E j \in Jobs : TricklePaste(j)
    \/ ContStep
    \/ KillPane
    \/ RemovePane

Init == PasteInit

Next == PasteNext

Spec == Init /\ [][Next]_vars

FairSpec == Spec /\ WF_vars(ContStep)

(***************************************************************************)
(* What the properties of the paste scheduler speak about.                 *)
(***************************************************************************)
IsJobSend(r, j) == r.job = j

\* the send_paste calls of one trickle_paste, in order
JobSends(j) == SelectSeq(sent, LAMBDA r : IsJobSend(r, j))

RECURSIVE ConcatChunks(_)
ConcatChunks(rs) == IF rs = <<>> THEN <<>> ELSE Head(rs).chunk \o ConcatChunks(Tail(rs))

SendFailed(j) == \E i \in 1..Len(sent) : sent[i].job = j /\ ~sent[i].ok

Queued(j) == \E i \in 1..Len(queue) : queue[i] = j

Running(j) == running # NoTask /\ running.job = j

\* the call was made and nothing of it is scheduled or running
AtRest(j) == call[j] \in {"ok", "err", "panic"} /\ ~Queued(j) /\ ~Running(j)

LongPayload(j) == Len(text[j]) > PASTE_CHUNK_SIZE

\* C1: for a payload longer than 1024 bytes, every offset at which trickle_paste
\* or a continuation cuts the payload into chunks is a character boundary.
C1_CutsOnCharBoundaries ==
    \A j \in Jobs : LongPayload(j) =>
        \A i \in 1..Len(cuts[j]) : IsCharBoundary(text[j], cuts[j][i])

\* C2: when no send_paste call failed, the chunks sent for one trickle_paste are
\* always a prefix of the payload, and once nothing of the call is scheduled or
\* running any more they concatenate to the payload exactly.
C2_ChunksConcatToText ==
    \A j \in Jobs : ~SendFailed(j) =>
        LET all == ConcatChunks(JobSends(j)) IN
        /\ Len(all) <= Len(text[j])
        /\ all = SubSeq(text[j], 1, Len(all))
        /\ AtRest(j) => all = text[j]

\* C3: a continuation whose chunk send fails, or whose pane is gone from the Mux,
\* does not panic.
C3_ContinuationFailsCleanly ==
    \A j \in Jobs : contPanic[j] \notin {"send_failed", "pane_gone"}

\* C4: once a send_paste call of a job has failed, the job has no continuation
\* queued or running, and no step makes a further send_paste call for it.
C4_FailedSendIsTerminal ==
    /\ [](\A j \in Jobs : SendFailed(j) => ~Queued(j) /\ ~Running(j))
    /\ [][\A j \in Jobs : SendFailed(j) => JobSends(j)' = JobSends(j)]_vars

C4_Witness ==
    \E j \in Jobs : contPanic[j] = "send_failed" /\ Len(JobSends(j)) >= 2

\* C5: trickle_paste of a payload of at most 1024 bytes makes exactly one
\* send_paste call, with the whole payload, and schedules no continuation.
C5_SmallPayloadOneSend ==
    \A j \in Jobs : (~LongPayload(j) /\ call[j] \in {"ok", "err", "panic"}) =>
        /\ Len(JobSends(j)) = 1
        /\ JobSends(j)[1].chunk = text[j]
        /\ paste[j] = NoPaste
        /\ ~Queued(j) /\ ~Running(j)

C5_Witness ==
    \E j \in Jobs : Len(text[j]) = PASTE_CHUNK_SIZE /\ call[j] = "ok"

\* the whole payload went out and nothing of the job is left
Complete(j) == AtRest(j) /\ ~SendFailed(j) /\ ConcatChunks(JobSends(j)) = text[j]

C7_MutexNotHeldAcrossSuspension ==
    \A j \in Jobs :
        /\ mutex[j] = "held" => Running(j)
        /\ (running = NoTask /\ Queued(j)) => mutex[j] = "free"

C7_Witness ==
    \E j \in Jobs : /\ running = NoTask /\ Queued(j) /\ mutex[j] = "free"
                     /\ paste[j] # NoPaste /\ paste[j].offset > PASTE_CHUNK_SIZE

(***************************************************************************)
(* What the properties of the logical line reconstructor speak about.      *)
(***************************************************************************)
\* the last row (1-based) of the maximal wrap chain that starts at row i
RECURSIVE ChainEnd(_)
ChainEnd(i) == IF i >= Len(lines) \/ ~lines[i].wrapped THEN i ELSE ChainEnd(i + 1)

\* the maximal wrap chains of the provider's rows from row i on, in row order
RECURSIVE Chains(_)
Chains(i) == IF i > Len(lines) THEN <<>> ELSE << <<i, ChainEnd(i)>> >> \o Chains(ChainEnd(i) + 1)

RECURSIVE ConcatCells(_)
ConcatCells(ls) == IF ls = <<>> THEN <<>> ELSE Head(ls).cells \o ConcatCells(Tail(ls))

\* a logical line is the chain ch: its rows, their cells in order, its first row
IsChain(ll, ch) ==
    /\ ll.first_row = ch[1] - 1
    /\ ll.physical_lines = SubSeq(lines, ch[1], ch[2])
    /\ ll.logical.cells = ConcatCells(SubSeq(lines, ch[1], ch[2]))

AreChains(lls, chs) ==
    /\ Len(lls) = Len(chs)
    /\ \A k \in 1..Len(chs) : IsChain(lls[k], chs[k])

\* the forward loop is at an iteration that changes nothing: the last line is
\* wrapped and the fetch of the next row returns no line at the expected index
ForwardLoopSpins ==
    /\ gl.pc = "fwd"
    /\ gl.phys # <<>>
    /\ last_cell_was_wrapped(gl.phys[Len(gl.phys)])
    /\ get_lines(gl.first + Len(gl.phys), gl.first + Len(gl.phys) + 1)
          = <<gl.first + Len(gl.phys), <<>> >>

Called == gl.pc # "idle"

Returns == gl.pc # "panic" /\ ~ForwardLoopSpins

\* C8: get_logical_lines over the full range returns, and what it returns is one
\* logical line per maximal wrap chain of the provider's rows, in row order, with
\* the chain's cells and the chain's first row.
C8_FullRangeGivesChains ==
    (Called /\ gl.start = 0 /\ gl.end >= Len(lines)) =>
        /\ Returns
        /\ gl.pc = "done" => AreChains(gl.result, Chains(1))

\* the chain ch has a row in [start, end), rows counted from 0
Overlaps(ch, start, end) == ch[1] - 1 < end /\ ch[2] - 1 >= start

OverlapsCall(ch) == Overlaps(ch, gl.start, gl.end)

\* C9: get_logical_lines over a sub-range [a,b) of the provider's rows returns,
\* and what it returns are exactly the chains of the full range that have a row
\* in [a,b), each whole.
C9_SubRangeGivesOverlappingChains ==
    (Called /\ gl.start < gl.end /\ gl.end <= Len(lines)) =>
        /\ Returns
        /\ gl.pc = "done" => AreChains(gl.result, SelectSeq(Chains(1), OverlapsCall))

\* a rule matched: only scan_and_create_hyperlinks leaves implicit links behind
HasImplicitLink(line) == \E i \in 1..Len(line.cells) : line.cells[i].link = "implicit"

\* C10: after apply_hyperlink_rules has found a link and re-split a logical
\* line, every physical line but the last is wrapped and the last is not.
C10_ResplitWrapFlags ==
    \A k \in 1..Len(hl.applied) :
        LET ll == hl.applied[k]
            n == Len(ll.physical_lines)
        IN  HasImplicitLink(ll.logical) =>
                \A i \in 1..n : last_cell_was_wrapped(ll.physical_lines[i]) = (i < n)

\* The calls that return do return the chains; a call within the provider's
\* rows does not panic; the forward loop spins only below a wrapped last row.
ReturnedChainsOnly ==
    /\ (gl.pc = "done" /\ gl.start = 0 /\ gl.end >= Len(lines)) => AreChains(gl.result, Chains(1))
    /\ (gl.pc = "done" /\ gl.start < gl.end /\ gl.end <= Len(lines)) =>
            AreChains(gl.result, SelectSeq(Chains(1), OverlapsCall))
    /\ (gl.start <= gl.end /\ gl.end <= Len(lines)) => gl.pc # "panic"
    /\ ForwardLoopSpins => lines[Len(lines)].wrapped

(***************************************************************************)
(* What the properties of get_lines_with_hyperlinks_applied speak about.   *)
(***************************************************************************)
HlReturned == hl.pc = "returned"

\* the returned lines are the rows s, s+1, ... of the provider, s the returned index
ConsecutiveRowsFrom(s, L) ==
    /\ s + Len(L) <= Len(lines)
    /\ \A i \in 1..Len(L) : as_str(L[i]) = as_str(lines[s + i])

\* C11: get_lines_with_hyperlinks_applied(range, rules) returns (s, L) where L
\* holds consecutive rows s, s+1, ..., all at or after range.start, and L has at
\* most range.end - range.start lines, also for an empty range.
C11_ReturnsRequestedRows ==
    HlReturned =>
        /\ ConsecutiveRowsFrom(hl.first, hl.phys_lines)
        /\ hl.phys_lines # <<>> => hl.first >= gl.start
        /\ Len(hl.phys_lines) <= gl.end - gl.start

\* the same for the ranges that hold a row
NonEmptyRangeReturnsRequestedRows ==
    (HlReturned /\ gl.start < gl.end) =>
        /\ ConsecutiveRowsFrom(hl.first, hl.phys_lines)
        /\ hl.phys_lines # <<>> => hl.first >= gl.start
        /\ Len(hl.phys_lines) <= gl.end - gl.start

\* the number of cells of a logical line that lie before its physical line idx
RowOffset(ll, idx) == Len(ConcatCells(SubSeq(ll.physical_lines, 1, idx)))

\* cell c of the physical line idx of ll carries an auto-detected link exactly
\* when the rules match there in the full logical text
LinkedWhereRulesMatch(phys, ll, idx, rules) ==
    \A c \in 1..Len(phys.cells) :
        (phys.cells[c].link = "implicit") <=> InMatch(as_str(ll.logical), rules, RowOffset(ll, idx) + c)

\* C12: the physical lines that get_lines_with_hyperlinks_applied hands back carry
\* exactly the auto-detected links that the rules produce on the full logical
\* text; an auto-detected link that the rules do not produce is gone from them.
C12_OnlyLinksTheRulesProduce ==
    HlReturned =>
        \A i \in 1..Len(hl.phys_lines) : \A k \in 1..Len(hl.applied) :
            LET ll == hl.applied[k]
                idx == hl.first + (i - 1) - ll.first_row
            IN  (0 <= idx /\ idx < Len(ll.physical_lines)) =>
                    LinkedWhereRulesMatch(hl.phys_lines[i], ll, idx, hl.rules)

\* the same when a rule or an explicit link made apply_hyperlink_rules re-split
RelinkedWhenResplit ==
    HlReturned =>
        \A i \in 1..Len(hl.phys_lines) : \A k \in 1..Len(hl.applied) :
            LET ll == hl.applied[k]
                idx == hl.first + (i - 1) - ll.first_row
            IN  (0 <= idx /\ idx < Len(ll.physical_lines) /\ has_hyperlink(ll.logical)) =>
                    LinkedWhereRulesMatch(hl.phys_lines[i], ll, idx, hl.rules)

(***************************************************************************)
(* What the properties of the coordinate mappings speak about.             *)
(***************************************************************************)
\* C13: for a LogicalLine returned by get_logical_lines and 0 <= x < logical.len(),
\* logical_x_to_physical_coord(x) returns a coordinate (y, px), and
\* xy_to_logical_x(px, y) on the same line then returns x.
C13_CoordinateRoundTrip ==
    /\ (co.op = "to_phys" /\ co.x < Len(gl.result[co.k].logical.cells)) => co.res # Panic
    /\ (co.op = "to_logical" /\ co.round.on) => co.res = XValue(co.round.x)

\* a round trip into the second row of a logical line that ends in a row of no cells
C13_Witness ==
    /\ co.op = "to_logical"
    /\ co.round.on
    /\ co.res = XValue(co.round.x)
    /\ co.y > gl.result[co.k].first_row
    /\ \E i \in 1..Len(gl.result[co.k].physical_lines) :
          gl.result[co.k].physical_lines[i].cells = <<>>

\* (x, y) is a cell of the logical line
IsCell(ll, x, y) ==
    /\ y >= ll.first_row
    /\ y < ll.first_row + Len(ll.physical_lines)
    /\ x < Len(ll.physical_lines[y - ll.first_row + 1].cells)

IsRow(ll, y) == y >= ll.first_row /\ y < ll.first_row + Len(ll.physical_lines)

\* C14: xy_to_logical_x(x, y) aborts whenever (x, y) is not a cell of the logical
\* line (y is not one of its rows, or x is not less than that row's cell count),
\* and logical_x_to_physical_coord(x) aborts whenever x >= logical.len().
C14_OutOfDomainAborts ==
    /\ (co.op = "to_logical" /\ ~IsCell(gl.result[co.k], co.x, co.y)) => co.res = Panic
    /\ (co.op = "to_phys" /\ co.x >= Len(gl.result[co.k].logical.cells)) => co.res = Panic

\* what does abort: a y that is not a row of the line, and a logical x beyond the end
OutOfRowsAborts ==
    /\ (co.op = "to_logical" /\ ~IsRow(gl.result[co.k], co.y)) => co.res = Panic
    /\ (co.op = "to_phys" /\ co.x >= Len(gl.result[co.k].logical.cells)) => co.res = Panic

(***************************************************************************)
(* The LogicalLine invariant.                                              *)
(***************************************************************************)
\* the cells of the physical lines, in order, are the cells of the logical line
PhysicalIsLogical(ll) == ConcatCells(ll.physical_lines) = ll.logical.cells

\* the same for the characters of the cells, whatever their links
PhysicalTextIsLogicalText(ll) ==
    [i \in 1..Len(ConcatCells(ll.physical_lines)) |-> ConcatCells(ll.physical_lines)[i].ch]
        = as_str(ll.logical)

\* C15: every LogicalLine returned by get_logical_lines, and every LogicalLine
\* after apply_hyperlink_rules has run on it, has the cells of its physical
\* lines, concatenated in order, equal to the cells of its logical line.
C15_PhysicalCellsAreLogicalCells ==
    /\ gl.pc = "done" => \A k \in 1..Len(gl.result) : PhysicalIsLogical(gl.result[k])
    /\ \A k \in 1..Len(hl.applied) : PhysicalIsLogical(hl.applied[k])

\* the part that holds: as returned by get_logical_lines the cells agree, and
\* after apply_hyperlink_rules the characters and the lengths agree, and the
\* cells too whenever the logical line carries a link
CellsAgreeButForStaleLinks ==
    /\ gl.pc = "done" => \A k \in 1..Len(gl.result) : PhysicalIsLogical(gl.result[k])
    /\ \A k \in 1..Len(hl.applied) :
          /\ PhysicalTextIsLogicalText(hl.applied[k])
          /\ has_hyperlink(hl.applied[k].logical) => PhysicalIsLogical(hl.applied[k])

(***************************************************************************)
(* The loops of get_logical_lines.                                         *)
(***************************************************************************)
\* an iteration of the backward loop probes the row before first
BackwardProbe == gl.pc = "back" /\ gl.first > 0 /\ gl' # gl

ProbeStart == get_lines(gl.first - 1, gl.first)[1]

ExtensionStops == gl'.pc # "back" /\ gl'.first = gl.first /\ gl'.phys = gl.phys

\* C16: in the backward extension of get_logical_lines, whenever the probe
\* get_lines(first-1..first) comes back with a start index other than first-1,
\* extension stops: the probed line is not prepended and first is unchanged.
C16_ReanchoredProbeStops ==
    [][(BackwardProbe /\ ProbeStart # gl.first - 1) => ExtensionStops]_vars

\* the re-anchoring the loop does test for: a probe that comes back at first
ProbeAtFirstStops ==
    [][(BackwardProbe /\ ProbeStart = gl.first) => ExtensionStops]_vars

\* C17: every call of get_logical_lines comes to an end after finitely many
\* get_lines calls, for every provider state and every range, also when the last
\* row the provider holds is wrapped and there is no row at the next index.
C17_GetLogicalLinesEnds == Called ~> (gl.pc \in {"done", "panic"})

\* a call whose rows end in a row that is not wrapped does come to an end
EndsUnlessLastRowWrapped ==
    (Called /\ (lines = <<>> \/ ~lines[Len(lines)].wrapped)) ~> (gl.pc \in {"done", "panic"})

\* C18: get_logical_lines on a range that lies partly or wholly beyond the rows
\* the provider holds does not abort, and what it returns are the logical lines
\* that exist in the range, possibly none.
C18_BeyondRowsDoesNotAbort ==
    (Called /\ gl.start < gl.end /\ gl.end > Len(lines)) =>
        /\ gl.pc # "panic"
        /\ gl.pc = "done" => AreChains(gl.result, SelectSeq(Chains(1), OverlapsCall))

\* the call aborts only for a range that starts beyond the row after the last,
\* and a call that returns returns the logical lines that exist in the range
AbortsOnlyPastTheEnd ==
    /\ gl.pc = "panic" => gl.start > Len(lines)
    /\ (gl.pc = "done" /\ gl.end > Len(lines)) =>
            AreChains(gl.result, SelectSeq(Chains(1), OverlapsCall))

(***************************************************************************)
(* What the property of alloc_pane_id speaks about.                        *)
(***************************************************************************)
\* C19: any two calls of alloc_pane_id return different ids, and a call that
\* begins after another has returned returns a larger id, whatever the
\* interleaving of the calling threads.
C19_IdsUniqueAndIncreasing ==
    /\ \A i, j \in 1..Len(allocs) : i # j => allocs[i].id # allocs[j].id
    /\ \A i \in 1..Len(allocs) : \A b \in allocs[i].before : b < allocs[i].id

\* two threads were inside alloc_pane_id together and returned in the order
\* opposite to their ids, and a third call began after both had returned
C19_Witness ==
    \E i, j, k \in 1..Len(allocs) :
        /\ i < j /\ allocs[i].id > allocs[j].id
        /\ allocs[i].thread # allocs[j].thread
        /\ allocs[k].before = {allocs[i].id, allocs[j].id}

(***************************************************************************)
(* What the property of the dirty flags speaks about.                      *)
(***************************************************************************)
\* C20: a row that get_lines has returned and that was not mutated since is not
\* in the result of get_dirty_lines over it, and get_dirty_lines changes no
\* dirty flag.
C20_FetchedRowsAreClean ==
    /\ [](seen # NoSeen => seen.rows \cap handed = {})
    /\ [][(seen' # NoSeen /\ seen' # seen) => dirty' = dirty]_vars

\* get_dirty_lines over all rows, after a fetch of a dirty row and a mutation of
\* another fetched row: it reports the mutated row and not the fetched one
C20_Witness ==
    /\ seen # NoSeen
    /\ seen.start = 0 /\ seen.end = DirtyRows
    /\ handed # {}
    /\ seen.rows # {}
    /\ seen.rows \cap handed = {}

(***************************************************************************)
(* The shape of what get_logical_lines returns.                            *)
(***************************************************************************)
\* every physical line of ll but the last is wrapped
WrappedButLast(ll) ==
    /\ ll.physical_lines # <<>>
    /\ \A i \in 1..(Len(ll.physical_lines) - 1) : last_cell_was_wrapped(ll.physical_lines[i])

\* next starts right after the last physical line of ll, which is not wrapped
StartsAfter(next, ll) ==
    /\ ~last_cell_was_wrapped(ll.physical_lines[Len(ll.physical_lines)])
    /\ next.first_row = ll.first_row + Len(ll.physical_lines)

\* C21: in the result of get_logical_lines every physical line of a logical line
\* but its last is wrapped, a new logical line starts exactly after a physical
\* line that is not wrapped, and consecutive logical lines cover consecutive rows.
C21_LogicalLinesPartitionRows ==
    gl.pc = "done" =>
        /\ \A k \in 1..Len(gl.result) : WrappedButLast(gl.result[k])
        /\ \A k \in 1..(Len(gl.result) - 1) : StartsAfter(gl.result[k + 1], gl.result[k])

\* two logical lines are returned, the first of them made of two rows
C21_Witness ==
    /\ gl.pc = "done"
    /\ Len(gl.result) = 2
    /\ Len(gl.result[1].physical_lines) = 2
    /\ StartsAfter(gl.result[2], gl.result[1])

\* an iteration of the forward loop fetches the row after the last one held
ForwardFetch ==
    /\ gl.pc = "fwd"
    /\ gl' # gl
    /\ gl.phys # <<>>
    /\ last_cell_was_wrapped(gl.phys[Len(gl.phys)])

NextRow == gl.first + Len(gl.phys)

\* C22: in the forward extension of get_logical_lines a fetched row is appended
\* only when the provider returned it at the expected next index; when the
\* returned start index differs, extension stops and nothing is appended.
C22_ForwardAppendsOnlyAtNextRow ==
    [][ForwardFetch =>
          IF get_lines(NextRow, NextRow + 1)[1] = NextRow
          THEN gl'.phys = gl.phys \o get_lines(NextRow, NextRow + 1)[2]
          ELSE gl'.phys = gl.phys /\ gl'.pc = "split"]_vars

\* the forward loop was left below a wrapped line: the fetch of the next row,
\* evicted by then, was re-anchored
C22_Witness ==
    /\ gl.pc = "split"
    /\ gl.phys # <<>>
    /\ last_cell_was_wrapped(gl.phys[Len(gl.phys)])
    /\ base > gl.first + Len(gl.phys)

(***************************************************************************)
(* What logical_x_to_physical_coord computes.                              *)
(***************************************************************************)
\* the index of the first physical line of ll for which x is less than the
\* summed cell counts of the physical lines up to and including it
LineOfX(ll, x) ==
    CHOOSE k \in 0..(Len(ll.physical_lines) - 1) :
        /\ x < RowOffset(ll, k + 1)
        /\ \A j \in 0..(k - 1) : x >= RowOffset(ll, j + 1)

\* C23: for x in [0, logical.len()), logical_x_to_physical_coord(x) returns
\* (first_row + k, x - S), k the index of the first physical line for which x is
\* less than the summed cell counts of lines 0..k, S the summed cell counts of
\* lines 0..k-1.
C23_CoordIsLineAndOffset ==
    (co.op = "to_phys" /\ co.x < Len(gl.result[co.k].logical.cells)) =>
        LET ll == gl.result[co.k]
            k == LineOfX(ll, co.x)
        IN  co.res = CoordValue(ll.first_row + k, co.x - RowOffset(ll, k))

\* the last cell of a logical line that starts after row 0 and spans two rows
C23_Witness ==
    /\ co.op = "to_phys"
    /\ gl.result[co.k].first_row > 0
    /\ co.x = Len(gl.result[co.k].logical.cells) - 1
    /\ co.res = CoordValue(gl.result[co.k].first_row + 1, 1)

(***************************************************************************)
(* Further properties of the paste scheduler.                              *)
(***************************************************************************)
\* C24: when the first, synchronous send_paste call of trickle_paste fails,
\* trickle_paste returns the failure, no paste job exists, no continuation is
\* queued or running, and that failed call stays the only send_paste call.
C24_FirstSendFailureIsReturned ==
    \A j \in Jobs :
        (JobSends(j) # <<>> /\ ~JobSends(j)[1].ok) =>
            /\ call[j] = "err"
            /\ Len(JobSends(j)) = 1
            /\ paste[j] = NoPaste
            /\ ~Queued(j) /\ ~Running(j)

\* a payload longer than one chunk whose first send failed
C24_Witness ==
    \E j \in Jobs : LongPayload(j) /\ call[j] = "err" /\ Len(JobSends(j)) = 1

\* a step makes a send_paste call for job j
SendsNow(j) == JobSends(j)' # JobSends(j)

\* a step ends a run of a continuation of job j
RunEnds(j) == Running(j) /\ ~Running(j)'

\* the run that ends has made its send_paste call, in this step or before
RunHasSent(j) == running.pc \in {"sent", "advanced", "last", "spawned"} \/ SendsNow(j)

\* the first chunk is sent within trickle_paste
FirstChunkBeforeReturn(j) ==
    (LongPayload(j) /\ call[j] \in {"ok", "err"}) =>
        /\ JobSends(j) # <<>>
        /\ JobSends(j)[1].chunk = SubSeq(text[j], 1, PASTE_CHUNK_SIZE)

\* the later chunks are sent one at a time by a running continuation that has
\* not sent yet, after trickle_paste returned
LaterChunksByContinuation(j) ==
    (LongPayload(j) /\ SendsNow(j)) =>
        /\ Len(JobSends(j)') = Len(JobSends(j)) + 1
        /\ IF JobSends(j) = <<>>
           THEN call[j] = "none" /\ ~Running(j)
           ELSE call[j] = "ok" /\ Running(j) /\ running.pc = "locked"

\* C25: for a payload longer than 1024 bytes the first chunk is sent before
\* trickle_paste returns, every later chunk is sent by a scheduled continuation
\* after trickle_paste has returned, and each continuation run sends exactly one
\* chunk.
C25_OneChunkPerRun ==
    /\ [](\A j \in Jobs : FirstChunkBeforeReturn(j))
    /\ [][\A j \in Jobs : LaterChunksByContinuation(j)]_vars
    /\ [][\A j \in Jobs : (LongPayload(j) /\ RunEnds(j)) => RunHasSent(j)]_vars

\* what holds: ... and a continuation run sends exactly one chunk unless it finds
\* the pane gone from the Mux and panics before sending
OneChunkPerRunUnlessPaneGone ==
    /\ [](\A j \in Jobs : FirstChunkBeforeReturn(j))
    /\ [][\A j \in Jobs : LaterChunksByContinuation(j)]_vars
    /\ [][\A j \in Jobs : (LongPayload(j) /\ RunEnds(j)) =>
                (RunHasSent(j) \/ contPanic'[j] = "pane_gone")]_vars

(***************************************************************************)
(* C26. Each chunk sent by a continuation has length equal to the smallest *)
(* n >= min(remaining, 1024) such that offset + n is a character boundary  *)
(* of the payload (n never exceeds remaining), so a chunk exceeds 1024     *)
(* bytes by at most the length of one encoded character minus one.         *)
(***************************************************************************)
\* the continuation of job j makes its send_paste call in this step
ContSendsNow(j) == Running(j) /\ running.pc = "locked" /\ SendsNow(j)

\* the length of the chunk handed to send_paste in this step
SentLen(j) == Len(JobSends(j)'[Len(JobSends(j)')].chunk)

\* the first byte (counted from 1) of the character that ends at byte `to` of s
LeadOf(s, to) == CHOOSE p \in 1..to : s[p] # "c" /\ \A q \in (p + 1)..to : s[q] = "c"

SmallestBoundaryChunk(j) ==
    LET offset == paste[j].offset
        remain == Len(text[j]) - offset
        nominal == Min(remain, PASTE_CHUNK_SIZE)
        n == SentLen(j)
    IN  /\ nominal <= n
        /\ n <= remain
        /\ IsCharBoundary(text[j], offset + n)
        /\ \A k \in nominal..(n - 1) : ~IsCharBoundary(text[j], offset + k)
        /\ n > PASTE_CHUNK_SIZE =>
              n - PASTE_CHUNK_SIZE <= (offset + n) - LeadOf(text[j], offset + n)

C26_ChunkIsSmallestBoundaryChunk ==
    [][\A j \in Jobs : ContSendsNow(j) => SmallestBoundaryChunk(j)]_vars

\* a continuation has sent a chunk that grew past 1024 bytes to end on a boundary
C26_Witness ==
    \E j \in Jobs :
        /\ Running(j) /\ running.pc = "sent"
        /\ running.chunk > PASTE_CHUNK_SIZE
        /\ running.chunk < running.remain
        /\ Len(JobSends(j)[Len(JobSends(j))].chunk) = running.chunk

(***************************************************************************)
(* The logical line k of the call, before and after apply_hyperlink_rules. *)
(***************************************************************************)
PhysBefore(k) == gl.result[k].physical_lines

PhysAfter(k) == hl.applied[k].physical_lines

\* the loop of lines 126-135 ran
Resplits(k) == has_hyperlink(hl.applied[k].logical)

SameShape(k) ==
    /\ Len(PhysAfter(k)) = Len(PhysBefore(k))
    /\ \A i \in 1..Len(PhysBefore(k)) :
          Len(PhysAfter(k)[i].cells) = Len(PhysBefore(k)[i].cells)

\* C27: when apply_hyperlink_rules re-splits a logical line, physical line i of
\* the result has as many cells as physical line i before the call and the number
\* of physical lines is unchanged; when the rules find no link, the physical
\* lines (cells and wrap flags) are left unchanged.
C27_ResplitKeepsShape ==
    HlReturned =>
        \A k \in 1..Len(hl.applied) :
            /\ Resplits(k) => SameShape(k)
            /\ ~HasImplicitLink(hl.applied[k].logical) => PhysAfter(k) = PhysBefore(k)

\* C27 as amended: ... when the logical line carries no hyperlink at all once the
\* rules have run (none made by a rule, none set explicitly), the physical lines
\* are left unchanged.
C27_ResplitKeepsShapeUnlessLinked ==
    HlReturned =>
        \A k \in 1..Len(hl.applied) :
            /\ Resplits(k) => SameShape(k)
            /\ ~Resplits(k) => PhysAfter(k) = PhysBefore(k)

\* a rule matched across two physical lines of different lengths, which were
\* re-split, and another logical line without any link was left alone
C27_Witness ==
    /\ HlReturned
    /\ \E k \in 1..Len(hl.applied) :
          /\ HasImplicitLink(hl.applied[k].logical)
          /\ Len(PhysBefore(k)) = 2
          /\ Len(PhysBefore(k)[1].cells) # Len(PhysBefore(k)[2].cells)
          /\ PhysAfter(k) # PhysBefore(k)

(***************************************************************************)
(* C28. In every reachable state of a paste job, its offset is a character *)
(* boundary of the payload with 1024 <= offset < payload length, the       *)
(* offset never decreases, it strictly increases between two consecutive   *)
(* chunk sends, and the payload and owning pane id of the job never change.*)
(***************************************************************************)
\* the Paste of job j exists
JobLive(j) == paste[j] # NoPaste

\* the bytes handed to send_paste for job j so far
RECURSIVE BytesSent(_)
BytesSent(sends) == IF sends = <<>> THEN 0 ELSE Len(Head(sends).chunk) + BytesSent(Tail(sends))

OffsetInPayload(j) ==
    JobLive(j) =>
        /\ IsCharBoundary(text[j], paste[j].offset)
        /\ PASTE_CHUNK_SIZE <= paste[j].offset
        /\ paste[j].offset < Len(text[j])

JobFieldsKept(j) ==
    (JobLive(j) /\ JobLive(j)') =>
        /\ paste'[j].offset >= paste[j].offset
        /\ paste'[j].pane_id = paste[j].pane_id
        /\ text'[j] = text[j]

\* each send starts where the one before ended, and every chunk before it has bytes
OffsetPastEarlierSends(j) ==
    ContSendsNow(j) =>
        /\ paste[j].offset = BytesSent(JobSends(j))
        /\ \A i \in 1..Len(JobSends(j)) : Len(JobSends(j)[i].chunk) > 0

C28_OffsetAdvancesInPayload ==
    /\ [](\A j \in Jobs : OffsetInPayload(j))
    /\ [][\A j \in Jobs : JobFieldsKept(j) /\ OffsetPastEarlierSends(j)]_vars

\* a job whose offset has advanced past a grown chunk and whose third chunk is sent
C28_Witness ==
    \E j \in Jobs :
        /\ JobLive(j)
        /\ paste[j].offset > 2 * PASTE_CHUNK_SIZE
        /\ Len(JobSends(j)) = 3

(***************************************************************************)
(* C29. At any time at most one continuation of a given paste job is       *)
(* queued or running: a continuation schedules at most one successor, and  *)
(* only after it has sent its own chunk and advanced the offset.           *)
(***************************************************************************)
\* the continuations of job j that wait in the executor's queue
QueuedCount(j) == Len(SelectSeq(queue, LAMBDA q : q = j))

QueuedOrRunning(j) == QueuedCount(j) + (IF Running(j) THEN 1 ELSE 0)

\* a running continuation of j schedules only from line 67, once, after its send
\* and the advance of the offset
SchedulesOneSuccessor(j) ==
    (Running(j) /\ QueuedCount(j)' # QueuedCount(j)) =>
        /\ running.pc = "advanced"
        /\ QueuedCount(j) = 0
        /\ QueuedCount(j)' = 1
        /\ paste[j].offset = BytesSent(JobSends(j))

C29_OneContinuationQueuedOrRunning ==
    /\ [](\A j \in Jobs : QueuedOrRunning(j) <= 1)
    /\ [][\A j \in Jobs : SchedulesOneSuccessor(j)]_vars

\* C29 as amended: at most one continuation of a job is queued and at most one
\* is running, and both at once only from the moment the running one has
\* scheduled its successor until it ends; a continuation schedules ...
C29_OneQueuedBesideTheOneThatSpawnedIt ==
    /\ [](\A j \in Jobs :
            /\ QueuedCount(j) <= 1
            /\ (QueuedCount(j) = 1 /\ Running(j)) => running.pc = "spawned")
    /\ [][\A j \in Jobs : SchedulesOneSuccessor(j)]_vars

\* the successor is queued while the continuation that scheduled it still runs
C29_Witness ==
    \E j \in Jobs : Running(j) /\ running.pc = "spawned" /\ QueuedCount(j) = 1

(***************************************************************************)
(* Two trickle_paste calls on the same pane, both with long payloads:      *)
(* job A pastes text around the 1024-byte marks, job B wide characters.    *)
(***************************************************************************)
\* the payloads whose last 1024-byte mark lies in or next to a character of 1..4 bytes
LastMarkPayloads ==
    {Pad(PASTE_CHUNK_SIZE * MaxChunks - wk[2]) \o Enc(wk[1]) \o Pad(c) :
        wk \in BoundaryCases, c \in 0..MaxTail}

TwoJobInit ==
    /\ paneState = "alive"
    /\ text \in {[j \in Jobs |-> IF j = "A" THEN p ELSE q] :
                    p \in LastMarkPayloads, q \in WidePayloads}
    /\ call = [j \in Jobs |-> "none"]
    /\ paste = [j \in Jobs |-> NoPaste]
    /\ mutex = [j \in Jobs |-> "free"]
    /\ queue = <<>>
    /\ running = NoTask
    /\ contPanic = [j \in Jobs |-> "no"]
    /\ sent = <<>>
    /\ cuts = [j \in Jobs |-> <<>>]
    /\ lines = <<>>
    /\ gl = GlIdle
    /\ hl = HlIdle
    /\ RestIdle

TwoJobSpec == TwoJobInit /\ [][PasteNext]_vars

\* the chunks of job j that the pane has taken
Received(j) == SelectSeq(JobSends(j), LAMBDA r : r.ok)

\* the job ran to its last chunk and every chunk was taken
Completed(j) == call[j] = "ok" /\ AtRest(j) /\ contPanic[j] = "no"

\* the chunk that the running continuation of j has sent and not yet added to the offset
UnaddedChunk(j) == IF Running(j) /\ running.pc \in {"sent", "last"} THEN running.chunk ELSE 0

\* this step is one of job k: its trickle_paste call or a step of its continuation
StepOf(k) == call'[k] # call[k] \/ Running(k) \/ Running(k)'

\* C30: when two trickle_paste jobs on the same pane are in progress at once,
\* their chunks may interleave at the pane, but for each job the chunks the pane
\* receives from it are in increasing offset order (each starts where the one
\* before ended) and concatenate to that job's payload (to a prefix of it until
\* the job has completed); no step of one job changes the offset, the payload
\* or the chunks of the other.
C30_JobsDoNotInterfere ==
    /\ [](\A j \in Jobs :
            LET got == ConcatChunks(Received(j)) IN
            /\ Len(got) <= Len(text[j])
            /\ got = SubSeq(text[j], 1, Len(got))
            /\ \A i \in 1..Len(Received(j)) : Len(Received(j)[i].chunk) > 0
            /\ JobLive(j) => paste[j].offset = Len(got) - UnaddedChunk(j)
            /\ Completed(j) => got = text[j])
    /\ [][\A j \in Jobs : \A k \in Jobs \ {j} : StepOf(k) =>
              /\ paste'[j] = paste[j]
              /\ text'[j] = text[j]
              /\ mutex'[j] = mutex[j]
              /\ JobSends(j)' = JobSends(j)]_vars

\* both jobs have completed and their chunks alternated at the pane
C30_Witness ==
    /\ \A j \in Jobs : Completed(j) /\ Len(Received(j)) = 3
    /\ text["A"] # text["B"]
    /\ \A k \in 1..(Len(sent) - 1) : sent[k].job # sent[k + 1].job

(***************************************************************************)
(* TermWindow::paint_tab and the dirty timer of TermWindow::new_window,    *)
(* over the Renderable of the active tab (its dirty flags are `dirty`).    *)
(* paint_tab holds tab.renderer() from its first to its last line, so the  *)
(* terminal is not written to while it runs.                               *)
(***************************************************************************)
\* Renderable::has_dirty_lines
has_dirty_lines == \E r \in DirtyRowSet : dirty[r]

\* Renderable::get_dirty_lines: the rows that are dirty; no flag changes
get_dirty_lines == {r \in DirtyRowSet : dirty[r]}

\* the terminal processes output that changes row r
TerminalOutput(r) ==
    /\ tw.pc = "idle"
    /\ dirty' = [dirty EXCEPT ![r] = TRUE]
    /\ handed' = handed \ {r}
    /\ seen' = NoSeen
    /\ tw' = [tw EXCEPT !.painted = FALSE]
    /\ UNCHANGED <<pasteVars, lineVars, base, co, idVars>>

\* the 35 ms timer: invalidate the window when has_dirty_lines
DirtyTimer ==
    /\ tw.pc = "idle"
    /\ has_dirty_lines
    /\ tw' = [tw EXCEPT !.invalid = TRUE]
    /\ UNCHANGED <<pasteVars, lineVars, base, co, idVars, dirtyVars>>

\* paint_tab up to the loop: the window system asks for a paint, for an
\* invalidate or for a reason of its own; let dirty_lines = term.get_dirty_lines()
PaintTab ==
    /\ tw.pc = "idle"
    /\ tw' = [pc |-> "rendering", todo |-> get_dirty_lines, atStart |-> get_dirty_lines,
              attempted |-> {}, failed |-> {}, painted |-> FALSE, invalid |-> FALSE]
    /\ UNCHANGED <<pasteVars, lineVars, base, co, idVars, dirtyVars>>

\* one iteration of the loop: self.render_screen_line(..).ok()
RenderScreenLine ==
    /\ tw.pc = "rendering"
    /\ tw.todo # {}
    /\ LET line_idx == CHOOSE r \in tw.todo : \A q \in tw.todo : r <= q IN
       \E ok \in BOOLEAN :
         tw' = [tw EXCEPT !.todo = @ \ {line_idx},
                          !.attempted = @ \cup {line_idx},
                          !.failed = IF ok THEN @ ELSE @ \cup {line_idx}]
    /\ UNCHANGED <<pasteVars, lineVars, base, co, idVars, dirtyVars>>

\* CleanDirtyLines that leaves the lines dirty whose rendering failed
CleanDirtyLines_KeepsFailed ==
    /\ tw.pc = "rendering"
    /\ tw.todo = {}
    /\ dirty' = [r \in DirtyRowSet |-> r \in tw.failed]
    /\ seen' = NoSeen
    /\ tw' = [tw EXCEPT !.pc = "idle", !.painted = TRUE]
    /\ UNCHANGED handed
    /\ UNCHANGED <<pasteVars, lineVars, base, co, idVars>>

\* the loop is over: term.clean_dirty_lines(), and paint_tab returns
CleanDirtyLines ==
    /\ tw.pc = "rendering"
    /\ tw.todo = {}
    /\ dirty' = [r \in DirtyRowSet |-> FALSE]
    /\ seen' = NoSeen
    /\ tw' = [tw EXCEPT !.pc = "idle", !.painted = TRUE]
    /\ UNCHANGED handed
    /\ UNCHANGED <<pasteVars, lineVars, base, co, idVars>>

PaintNext ==
    \/ \E r \in DirtyRowSet : TerminalOutput(r)
    \/ DirtyTimer
    \/ PaintTab
    \/ RenderScreenLine
    \/ CleanDirtyLines

\* from a screen whose rows are dirty or not, not painted yet
PaintSpec == DirtyInit /\ [][PaintNext]_vars

\* C31: paint_tab attempts to render every line that is dirty when painting
\* starts and then clears the dirty state of all lines, so after a paint no line
\* is dirty until the terminal content changes again; a line whose rendering
\* failed is cleared as well (the failure is discarded, and the periodic dirty
\* check does not invalidate the window for it).
C31_PaintRendersAndCleansAll ==
    /\ [][(tw.pc = "rendering" /\ tw'.pc = "idle") =>
            /\ tw.attempted = tw.atStart
            /\ tw.atStart = get_dirty_lines
            /\ \A r \in DirtyRowSet : ~dirty'[r]]_vars
    /\ [](tw.painted =>
            /\ ~has_dirty_lines
            /\ \A r \in tw.failed : r \in tw.atStart /\ ~dirty[r]
            /\ ~tw.invalid
            /\ ~ENABLED DirtyTimer)
    /\ [][\A r \in DirtyRowSet : (~dirty[r] /\ dirty'[r]) => (tw.pc = "idle" /\ ~tw'.painted)]_vars

\* a paint of two dirty lines has ended, the rendering of one of them failed,
\* and nothing was written since
C31_Witness ==
    /\ tw.pc = "idle"
    /\ tw.painted
    /\ Cardinality(tw.atStart) >= 2
    /\ tw.failed # {}
    /\ tw.failed # tw.atStart
    /\ ~has_dirty_lines

====
